---- MODULE Spec2Model ----
(***************************************************************************)
(* Model of src/llm_bot.py: a Discord bot that relays "!ask" questions to  *)
(* a generative API and sends the answer back, split into chunks.          *)
(*                                                                         *)
(* Every Message event the transport delivers becomes one entry of tasks:  *)
(* the run of on_message and of the command it dispatches.  A task stops   *)
(* at each await of the code (a send, the inter-chunk sleep); one action   *)
(* resumes it and runs it to its next await, so that tasks interleave      *)
(* exactly where the event loop can switch.  Every Ready event becomes one *)
(* entry of readys, the run of on_ready.                                   *)
(*                                                                         *)
(* Texts are sequences of one-character strings.  The 2000-character limit *)
(* of the code is scaled down to Limit so that texts longer than the limit *)
(* can be enumerated.                                                      *)
(***************************************************************************)
EXTENDS Integers, Sequences, FiniteSets, TLC

VARIABLES tasks, readys, model, writes

vars == <<tasks, readys, model, writes>>

(***************************************************************************)
(* Bounds                                                                  *)
(***************************************************************************)
\* the limit of send_long_message (2000 in the code), scaled
Limit == 3
\* longest text enumerated as a generative answer under SpecChunk
MaxLen == 6
\* events (Ready and Message) the transport delivers in one behaviour
MaxEvents == 3
\* longest list of safety ratings a response carries under SpecFormat
MaxRatings == 2
\* longest list genai.list_models() yields under SpecSelect
MaxModels == 3

(***************************************************************************)
(* Texts                                                                   *)
(***************************************************************************)
\* "a" stands for any character that is not whitespace, " " for whitespace
\* that ends no line, "\n" for a one-character line boundary; "\r" is a line
\* boundary of its own and also the first half of the boundary "\r\n"
Char == {"a", " ", "\n", "\r"}

IsSpace(c) == c \in {" ", "\n", "\r"}

SeqsUpTo(S, n) == UNION {[1..k -> S] : k \in 0..n}

RECURSIVE Concat(_)
Concat(ss) == IF ss = <<>> THEN <<>> ELSE Head(ss) \o Concat(Tail(ss))

\* str.splitlines(True): the lines of text, each with its line boundary
RECURSIVE SplitFrom(_, _, _)
SplitFrom(text, i, cur) ==
    IF i > Len(text)
    THEN IF cur = <<>> THEN <<>> ELSE <<cur>>
    ELSE IF text[i] = "\r" /\ i < Len(text) /\ text[i + 1] = "\n"
         THEN <<cur \o <<"\r", "\n">>>> \o SplitFrom(text, i + 2, <<>>)
         ELSE IF text[i] \in {"\n", "\r"}
              THEN <<Append(cur, text[i])>> \o SplitFrom(text, i + 1, <<>>)
              ELSE SplitFrom(text, i + 1, Append(cur, text[i]))

SplitLines(text) == SplitFrom(text, 1, <<>>)

\* str.strip(): leading and trailing whitespace removed
RECURSIVE LStrip(_)
LStrip(s) == IF s # <<>> /\ IsSpace(Head(s)) THEN LStrip(Tail(s)) ELSE s

RECURSIVE RStrip(_)
RStrip(s) ==
    IF s # <<>> /\ IsSpace(s[Len(s)]) THEN RStrip(SubSeq(s, 1, Len(s) - 1)) ELSE s

Strip(s) == RStrip(LStrip(s))

(***************************************************************************)
(* send_long_message: the chunks                                           *)
(***************************************************************************)
IsShortOffByOne(text) == Len(text) < Limit

\* if len(text) <= 2000
IsShort(text) == Len(text) <= Limit

FitsIgnoringLine(cur, line) == Len(cur) <= Limit

FitsBelowLimit(cur, line) == Len(cur) + Len(line) < Limit

\* if len(current_chunk) + len(line) <= 2000
Fits(cur, line) == Len(cur) + Len(line) <= Limit

CloseChunkDropped(chunks, cur) == chunks

\* chunks.append(current_chunk)
CloseChunk(chunks, cur) == Append(chunks, cur)

\* the for loop over the lines, and the last chunk
RECURSIVE ChunkLoop(_, _, _, _)
ChunkLoop(lines, i, chunks, cur) ==
    IF i > Len(lines)
    THEN IF cur # <<>> THEN CloseChunk(chunks, cur) ELSE chunks
    ELSE IF Fits(cur, lines[i])
         THEN ChunkLoop(lines, i + 1, chunks, cur \o lines[i])
         ELSE ChunkLoop(lines, i + 1, CloseChunk(chunks, cur), lines[i])

BuildChunks(text) == ChunkLoop(SplitLines(text), 1, <<>>, <<>>)

\* if chunk.strip()
Sendable(chunk) == Strip(chunk) # <<>>

\* the first chunk at or after index i that the sending loop does not skip
RECURSIVE NextSendable(_, _)
NextSendable(chunks, i) ==
    IF i > Len(chunks) THEN i
    ELSE IF Sendable(chunks[i]) THEN i ELSE NextSendable(chunks, i + 1)

(***************************************************************************)
(* Messages, tasks                                                         *)
(***************************************************************************)
BotUser == "bot"

Authors == {BotUser, "alice"}

\* message contents: the three commands, ask without its argument, a
\* command that is not registered, and a message without the prefix
Contents == {"!hello", "!ping", "!ask q", "!ask", "!dance", "hi"}

\* command_prefix='!'
HasPrefix(content) == content \in {"!hello", "!ping", "!ask q", "!ask", "!dance"}

CommandName(content) ==
    CASE content = "!hello" -> "hello"
      [] content = "!ping" -> "ping"
      [] content \in {"!ask q", "!ask"} -> "ask"
      [] OTHER -> "dance"

\* what follows the command name: the keyword-only argument question
Argument(content) == IF content = "!ask q" THEN "q" ELSE ""

\* @bot.command(name=...)
Registered == {"hello", "ping", "ask"}

\* one send: its text (the answer's characters) or its details (the entries
\* of the safety notice), and how the transport answered it
Msg(kind, text, details) ==
    [kind |-> kind, text |-> text, details |-> details, st |-> "pending"]

Notice(kind) == Msg(kind, <<>>, <<>>)

\* a response of generate_content: the exception it raises, or whether it
\* has the attribute text, that text and its prompt_feedback.safety_ratings
NoResponse == [raises |-> "none", hasText |-> FALSE, text |-> <<>>, ratings |-> <<>>]

NewTask(author, content) ==
    [author |-> author, content |-> content,
     logged |-> FALSE,      \* on_message printed the message
     routed |-> FALSE,      \* on_message called bot.process_commands
     invoked |-> "none",    \* the command handler that was called
     pc |-> "done",         \* the await the task is suspended at
     sent |-> <<>>,         \* the sends issued, in order
     log |-> <<>>,          \* the lines printed by on_command_error and ask_gemini
     genCalls |-> 0,        \* calls of model.generate_content
     modelRead |-> "none",  \* the value of model that call used
     readAt |-> 0,          \* the number of on_ready assignments before that read
     result |-> "none",     \* what generate_content gave
     response |-> NoResponse, \* the response object itself
     text |-> <<>>,         \* the text given to send_long_message
     chunks |-> <<>>,       \* the chunks list of send_long_message
     idx |-> 0,             \* the chunk being sent
     delays |-> 0,          \* completed asyncio.sleep(0.5)
     fault |-> "none",      \* the exception caught by ask_gemini's except
     escaped |-> FALSE]     \* an exception left the command handler

IssueSend(task, msg, pc) == [task EXCEPT !.sent = Append(@, msg), !.pc = pc]

CompleteSend(task, ok) ==
    [task EXCEPT !.sent[Len(task.sent)].st = IF ok THEN "ok" ELSE "failed"]

OnCommandErrorClosing(task, error) ==
    [task EXCEPT !.log = Append(@, "Error: " \o error), !.pc = "closed"]

\* on_command_error: print(f'Error: {error}')
OnCommandError(task, error) ==
    [task EXCEPT !.log = Append(@, "Error: " \o error), !.pc = "done"]

\* an exception leaves a command handler: the framework hands it to
\* on_command_error
HandlerRaised(task) ==
    OnCommandError([task EXCEPT !.escaped = TRUE], "CommandInvokeError")

(***************************************************************************)
(* ask_gemini and send_long_message, run from one await to the next        *)
(***************************************************************************)
\* the loop "for chunk in chunks": the next chunk that is sent from index i
\* on, or the return of send_long_message (and of ask_gemini) after the last
SendChunksFrom(task, i) ==
    LET j == NextSendable(task.chunks, i)
    IN  IF j > Len(task.chunks)
        THEN [task EXCEPT !.idx = j, !.pc = "done"]
        ELSE IssueSend([task EXCEPT !.idx = j],
                       Msg("answer", task.chunks[j], <<>>), "chunk")

\* send_long_message(channel, text) up to its first await
SendLongMessage(task, text) ==
    IF IsShort(text)
    THEN IssueSend([task EXCEPT !.text = text], Msg("answer", text, <<>>), "single")
    ELSE SendChunksFrom([task EXCEPT !.text = text, !.chunks = BuildChunks(text)], 1)

\* the integer values of the enums HarmProbability and HarmBlockThreshold,
\* which rating.probability > rating.threshold compares
EnumValue(name) ==
    CASE name = "NEGLIGIBLE" -> 1
      [] name = "HIGH" -> 4
      [] name = "BLOCK_LOW_AND_ABOVE" -> 1
      [] name = "BLOCK_MEDIUM_AND_ABOVE" -> 2
      [] OTHER -> 0

BlockedEntry(r) ==
    [category |-> r.category, verdict |-> "BLOCKED", threshold |-> r.threshold]

IsBlocked(r) == r.blocked

SafetyIssuesBlockedOnly(ratings) ==
    LET blocked == SelectSeq(ratings, IsBlocked)
    IN  IF blocked # <<>>
        THEN [i \in 1..Len(blocked) |-> BlockedEntry(blocked[i])]
        ELSE LET over == SelectSeq(ratings,
                             LAMBDA r : EnumValue(r.probability) > EnumValue(r.threshold))
             IN  [i \in 1..Len(over) |->
                     [category |-> over[i].category, verdict |-> over[i].probability,
                      threshold |-> over[i].threshold]]

\* the entries of safety_issues, in rating order
RECURSIVE SafetyIssues(_)
SafetyIssues(ratings) ==
    IF ratings = <<>> THEN <<>>
    ELSE LET r == Head(ratings)
         IN  (IF r.blocked
              THEN <<[category |-> r.category, verdict |-> "BLOCKED",
                      threshold |-> r.threshold]>>
              ELSE IF EnumValue(r.probability) > EnumValue(r.threshold)
                   THEN <<[category |-> r.category, verdict |-> r.probability,
                           threshold |-> r.threshold]>>
                   ELSE <<>>)
             \o SafetyIssues(Tail(ratings))

HasTextAttribute(result) == result.hasText

HasTextAndNoRatings(result) ==
    result.hasText /\ result.text # <<>> /\ result.ratings = <<>>

\* hasattr(response, 'text') and response.text
HasText(result) == result.hasText /\ result.text # <<>>

\* the if / elif / else on the response, up to the await of its send
Format(task, result) ==
    IF HasText(result)
    THEN SendLongMessage([task EXCEPT !.result = "text"], result.text)
    ELSE IF result.ratings # <<>>
         THEN IF SafetyIssues(result.ratings) # <<>>
              THEN IssueSend([task EXCEPT !.result = "blocked"],
                             Msg("safety", <<>>, SafetyIssues(result.ratings)),
                             "notice")
              ELSE IssueSend([task EXCEPT !.result = "unrated"],
                             Notice("internal"), "notice")
         ELSE IssueSend([task EXCEPT !.result = "empty"], Notice("generic"), "notice")

\* "BlockedReason" in str(e)
MentionsBlockedReason(error) == error = "BlockedReason"

\* except Exception as e: up to the await of the notice it sends
Except(task, error) ==
    IF MentionsBlockedReason(error)
    THEN IssueSend([task EXCEPT !.fault = error], Notice("prompt_blocked"), "except")
    ELSE IssueSend([task EXCEPT !.fault = error], Notice("error"), "except")

\* model.generate_content(question) is called: a synchronous call, which
\* the handler does not await, so that the event loop runs nothing else
\* until it returns
CallGenerate(task) ==
    [task EXCEPT !.genCalls = @ + 1, !.modelRead = model, !.readAt = writes,
                 !.pc = "generating"]

ReturnedRetrying(task, outcome) ==
    IF outcome.raises # "none"
    THEN IF task.genCalls < 2
         THEN CallGenerate(task)
         ELSE Except([task EXCEPT !.result = "raised", !.response = outcome],
                     outcome.raises)
    ELSE Format([task EXCEPT !.response = outcome], outcome)

\* generate_content returns or raises, and the handler runs on to the await
\* of its next send
Returned(task, outcome) ==
    IF outcome.raises # "none"
    THEN Except([task EXCEPT !.result = "raised", !.response = outcome],
                outcome.raises)
    ELSE Format([task EXCEPT !.response = outcome], outcome)

\* response = model.generate_content(question), and what follows it
Generate(task, outcome) == Returned(CallGenerate(task), outcome)

AfterAckUnawaited(task, ok) == CallGenerate(task)

\* await ctx.send("Thinking...") inside the try: a send that raises takes
\* the handler to its except block, past the call of generate_content
AfterAck(task, ok) ==
    IF ok THEN CallGenerate(task) ELSE Except(task, "TransportError")

\* ask_gemini(ctx, question) up to its first await
AskGemini(task) ==
    IssueSend([task EXCEPT !.invoked = "ask"], Notice("ack"), "ack")

\* hello(ctx) up to its await
Hello(task) == IssueSend([task EXCEPT !.invoked = "hello"], Notice("hello"), "hello")

\* ping(ctx) up to its await
Ping(task) == IssueSend([task EXCEPT !.invoked = "ping"], Notice("pong"), "ping")

(***************************************************************************)
(* on_message and the command framework                                    *)
(***************************************************************************)
IsSelfNever(author) == FALSE

\* if message.author == bot.user
IsSelf(author) == author = BotUser

ArgMissingNever(content) == FALSE

\* question is a required keyword-only argument: the framework raises
\* MissingRequiredArgument when nothing follows the command name
ArgMissing(content) == Argument(content) = ""

\* bot.process_commands(message): the prefix, the command lookup, the
\* argument and the call of the handler
ProcessCommands(task) ==
    LET t == [task EXCEPT !.routed = TRUE]
    IN  IF ~HasPrefix(t.content) THEN t
        ELSE IF CommandName(t.content) \notin Registered
             THEN OnCommandError(t, "CommandNotFound")
             ELSE CASE CommandName(t.content) = "hello" -> Hello(t)
                    [] CommandName(t.content) = "ping" -> Ping(t)
                    [] OTHER -> IF ArgMissing(t.content)
                                THEN OnCommandError(t, "MissingRequiredArgument")
                                ELSE AskGemini(t)

\* on_message(message) up to the first await that suspends it
OnMessage(author, content) ==
    IF IsSelf(author)
    THEN NewTask(author, content)
    ELSE ProcessCommands([NewTask(author, content) EXCEPT !.logged = TRUE])

(***************************************************************************)
(* The generative API                                                      *)
(***************************************************************************)
InitialModelUnset == "unset"

\* model = genai.GenerativeModel('gemini-pro')
InitialModel == "gemini-pro"

\* a line of n characters, its line boundary included
Line(n) == [i \in 1..n |-> IF i = n THEN "\n" ELSE "a"]

Texts == SeqsUpTo(Char, MaxLen)

\* the answers of the bot as a whole: one within the limit and one of two
\* lines that fill a chunk each (SpecChunk below takes every text)
SampleTexts == {<<"a">>, Line(Limit) \o Line(Limit)}

Rating(blocked, probability) ==
    [category |-> "HARM_CATEGORY_HARASSMENT", blocked |-> blocked,
     probability |-> probability, threshold |-> "BLOCK_MEDIUM_AND_ABOVE"]

TextResult(text) ==
    [raises |-> "none", hasText |-> TRUE, text |-> text, ratings |-> <<>>]

NoTextResult(ratings) ==
    [raises |-> "none", hasText |-> FALSE, text |-> <<>>, ratings |-> ratings]

Raises(error) ==
    [raises |-> error, hasText |-> FALSE, text |-> <<>>, ratings |-> <<>>]

\* what generate_content gives in the bot as a whole: an answer, a response
\* without text (with or without a blocked safety rating), or an exception
\* (SpecFormat below takes every response)
SampleResults ==
    {TextResult(t) : t \in SampleTexts}
    \cup {NoTextResult(<<>>), NoTextResult(<<Rating(TRUE, "HIGH")>>)}
    \cup {Raises("ApiError")}

Model(name, gen) == [name |-> name, gen |-> gen]

\* what genai.list_models() yields in the bot as a whole; gen says that
\* 'generateContent' is in the entry's supported_generation_methods
\* (SpecSelect below takes every list)
SampleModelLists ==
    {<<Model("models/embedding-001", FALSE)>>,
     <<Model("models/gemini-1.5-flash", TRUE)>>,
     <<Model("models/gemini-1.5-flash", TRUE), Model("models/gemini-1.5-pro", TRUE)>>}

RECURSIVE SelectLoopFirstMatch(_, _, _)
SelectLoopFirstMatch(models, i, chosen) ==
    IF i > Len(models) THEN chosen
    ELSE IF models[i].gen /\ models[i].name = "models/gemini-1.5-pro"
         THEN "gemini-1.5-pro"
         ELSE IF models[i].gen /\ models[i].name = "models/gemini-1.5-flash"
              THEN "gemini-1.5-flash"
              ELSE SelectLoopFirstMatch(models, i + 1, chosen)

\* the for loop of on_ready over genai.list_models(): model_name_to_use
RECURSIVE SelectLoop(_, _, _)
SelectLoop(models, i, chosen) ==
    IF i > Len(models) THEN chosen
    ELSE IF models[i].gen /\ models[i].name = "models/gemini-1.5-pro"
         THEN "gemini-1.5-pro"
         ELSE IF models[i].gen /\ models[i].name = "models/gemini-1.5-flash"
              THEN SelectLoop(models, i + 1, "gemini-1.5-flash")
              ELSE SelectLoop(models, i + 1, chosen)

SelectModelFirstMatch(models) == SelectLoopFirstMatch(models, 1, "none")

SelectModel(models) == SelectLoop(models, 1, "none")

(***************************************************************************)
(* Actions                                                                 *)
(***************************************************************************)
\* no handler is inside the synchronous call of generate_content, which
\* keeps the event loop from running anything else
Unblocked == \A t \in 1..Len(tasks) : tasks[t].pc # "generating"

\* the event loop runs: no handler has closed the client
Receiving == \A t \in 1..Len(tasks) : tasks[t].pc # "closed"

Init ==
    /\ tasks = <<>>
    /\ readys = <<>>
    /\ model = InitialModel
    /\ writes = 0

\* one run of on_ready: where it is, how the listing of list_gemini_models
\* and the selection went, the list the selection saw, and whether an
\* exception left on_ready
NewReady ==
    [pc |-> "presence", diagnostic |-> "none", selection |-> "none",
     models |-> <<>>, escaped |-> FALSE]

\* the transport delivers Ready: on_ready runs to await bot.change_presence
ReadyEvent ==
    /\ Unblocked /\ Receiving
    /\ Len(readys) + Len(tasks) < MaxEvents
    /\ readys' = Append(readys, NewReady)
    /\ UNCHANGED <<tasks, model, writes>>

\* change_presence raises: the exception leaves on_ready
PresenceFailed(ready) == [ready EXCEPT !.pc = "done", !.escaped = TRUE]

\* genai.list_models() raises in list_gemini_models, which on_ready awaits
\* outside its try block: the exception leaves on_ready
DiagnosticFailed(ready) ==
    [ready EXCEPT !.pc = "done", !.diagnostic = "failed", !.escaped = TRUE]

\* genai.list_models() raises in the try block: except Exception prints it
SelectionFailed(ready) ==
    [ready EXCEPT !.pc = "done", !.diagnostic = "listed", !.selection = "failed"]

\* the selection loop ran over models: model is assigned, or the ValueError
\* "No suitable Gemini model found." is raised and printed
Selected(ready, models) ==
    [ready EXCEPT !.pc = "done", !.diagnostic = "listed", !.models = models,
                  !.selection = IF SelectModel(models) = "none"
                                THEN "no_model" ELSE "selected"]

\* change_presence answers and on_ready runs to its end: list_gemini_models
\* (outside the try), then the selection and the assignment of model
PresenceDone(r, lists) ==
    /\ Unblocked
    /\ readys[r].pc = "presence"
    /\ \/ /\ readys' = [readys EXCEPT ![r] = PresenceFailed(@)]
          /\ UNCHANGED <<model, writes>>
       \/ /\ readys' = [readys EXCEPT ![r] = DiagnosticFailed(@)]
          /\ UNCHANGED <<model, writes>>
       \/ /\ readys' = [readys EXCEPT ![r] = SelectionFailed(@)]
          /\ UNCHANGED <<model, writes>>
       \/ \E models \in lists :
             /\ readys' = [readys EXCEPT ![r] = Selected(@, models)]
             /\ IF SelectModel(models) = "none"
                THEN UNCHANGED <<model, writes>>
                ELSE /\ model' = SelectModel(models)
                     /\ writes' = writes + 1
    /\ UNCHANGED tasks

\* the transport delivers a Message, which it does once Ready was delivered
\* (on_ready may still be suspended): on_message runs to its first await
MessageEvent ==
    /\ Unblocked /\ Receiving
    /\ readys # <<>>
    /\ Len(readys) + Len(tasks) < MaxEvents
    /\ \E author \in Authors, content \in Contents :
          tasks' = Append(tasks, OnMessage(author, content))
    /\ UNCHANGED <<readys, model, writes>>

Resume(t, task) ==
    /\ tasks' = [tasks EXCEPT ![t] = task]
    /\ UNCHANGED <<readys, model, writes>>

\* the send of hello answers
HelloDone(t) ==
    /\ Unblocked
    /\ tasks[t].pc = "hello"
    /\ \E ok \in BOOLEAN :
          LET task == CompleteSend(tasks[t], ok)
          IN  Resume(t, IF ok THEN [task EXCEPT !.pc = "done"] ELSE HandlerRaised(task))

\* the send of ping answers
PingDone(t) ==
    /\ Unblocked
    /\ tasks[t].pc = "ping"
    /\ \E ok \in BOOLEAN :
          LET task == CompleteSend(tasks[t], ok)
          IN  Resume(t, IF ok THEN [task EXCEPT !.pc = "done"] ELSE HandlerRaised(task))

\* the send of "Thinking..." answers: ask_gemini calls generate_content
AckDone(t) ==
    /\ Unblocked
    /\ tasks[t].pc = "ack"
    /\ \E ok \in BOOLEAN :
          LET task == CompleteSend(tasks[t], ok)
          IN  Resume(t, AfterAck(task, ok))

\* generate_content returns: ask_gemini runs to the await of its next send
GenerateDone(t, results) ==
    /\ tasks[t].pc = "generating"
    /\ \E outcome \in results : Resume(t, Returned(tasks[t], outcome))

\* the one send of a text within the limit answers
SingleDone(t) ==
    /\ Unblocked
    /\ tasks[t].pc = "single"
    /\ \E ok \in BOOLEAN :
          LET task == CompleteSend(tasks[t], ok)
          IN  Resume(t, IF ok THEN [task EXCEPT !.pc = "done"]
                        ELSE Except(task, "TransportError"))

\* the send of a chunk answers: asyncio.sleep(0.5) follows
ChunkDone(t) ==
    /\ Unblocked
    /\ tasks[t].pc = "chunk"
    /\ \E ok \in BOOLEAN :
          LET task == CompleteSend(tasks[t], ok)
          IN  Resume(t, IF ok THEN [task EXCEPT !.pc = "sleep"]
                        ELSE Except(task, "TransportError"))

\* the sleep ends: the loop goes on with the next chunk
SleepDone(t) ==
    /\ Unblocked
    /\ tasks[t].pc = "sleep"
    /\ Resume(t, SendChunksFrom([tasks[t] EXCEPT !.delays = @ + 1], tasks[t].idx + 1))

\* the send of a notice of the try block answers
NoticeDone(t) ==
    /\ Unblocked
    /\ tasks[t].pc = "notice"
    /\ \E ok \in BOOLEAN :
          LET task == CompleteSend(tasks[t], ok)
          IN  Resume(t, IF ok THEN [task EXCEPT !.pc = "done"]
                        ELSE Except(task, "TransportError"))

\* the send of the notice of the except block answers; after the error
\* notice comes print(f"Gemini API Error: {e}")
ExceptDone(t) ==
    /\ Unblocked
    /\ tasks[t].pc = "except"
    /\ \E ok \in BOOLEAN :
          LET task == CompleteSend(tasks[t], ok)
          IN  Resume(t, IF ~ok THEN HandlerRaised(task)
                        ELSE IF MentionsBlockedReason(task.fault)
                             THEN [task EXCEPT !.pc = "done"]
                             ELSE [task EXCEPT !.pc = "done",
                                               !.log = Append(@, "Gemini API Error")])

Next ==
    \/ ReadyEvent
    \/ \E r \in 1..Len(readys) : PresenceDone(r, SampleModelLists)
    \/ MessageEvent
    \/ \E t \in 1..Len(tasks) : HelloDone(t)
    \/ \E t \in 1..Len(tasks) : PingDone(t)
    \/ \E t \in 1..Len(tasks) : AckDone(t)
    \/ \E t \in 1..Len(tasks) : GenerateDone(t, SampleResults)
    \/ \E t \in 1..Len(tasks) : SingleDone(t)
    \/ \E t \in 1..Len(tasks) : ChunkDone(t)
    \/ \E t \in 1..Len(tasks) : SleepDone(t)
    \/ \E t \in 1..Len(tasks) : NoticeDone(t)
    \/ \E t \in 1..Len(tasks) : ExceptDone(t)

Spec == Init /\ [][Next]_vars

(***************************************************************************)
(* send_long_message on every text: one ask whose acknowledgment was sent  *)
(* and whose generate_content gave the text                                *)
(***************************************************************************)
Asked == CompleteSend(OnMessage("alice", "!ask q"), TRUE)

InitChunk ==
    /\ readys = <<Selected(NewReady, <<Model("models/gemini-1.5-pro", TRUE)>>)>>
    /\ model = "gemini-1.5-pro"
    /\ writes = 1
    /\ \E text \in Texts \ {<<>>} : tasks = <<Generate(Asked, TextResult(text))>>

NextChunk ==
    \/ SingleDone(1)
    \/ ChunkDone(1)
    \/ SleepDone(1)
    \/ ExceptDone(1)

SpecChunk == InitChunk /\ [][NextChunk]_vars

(***************************************************************************)
(* The handling of every response: two asks whose acknowledgments were     *)
(* sent and whose generate_content returned; the responses carry the same  *)
(* safety ratings and the second has no text to send                       *)
(***************************************************************************)
Categories == {"HARM_CATEGORY_HARASSMENT", "HARM_CATEGORY_HATE_SPEECH"}

Ratings ==
    [category : Categories, blocked : BOOLEAN,
     probability : {"NEGLIGIBLE", "HIGH"}, threshold : {"BLOCK_MEDIUM_AND_ABOVE"}]

RatingLists == SeqsUpTo(Ratings, MaxRatings)

Response(hasText, text, ratings) ==
    [raises |-> "none", hasText |-> hasText, text |-> text, ratings |-> ratings]

\* a response without the attribute text, and one whose text is ""
TextlessResponses(ratings) == {Response(FALSE, <<>>, ratings), Response(TRUE, <<>>, ratings)}

Responses(ratings) ==
    TextlessResponses(ratings)
    \cup {Response(TRUE, t, ratings) : t \in SampleTexts}
    \cup (IF ratings = <<>> THEN {Raises("ApiError"), Raises("BlockedReason")} ELSE {})

InitFormat ==
    /\ readys = <<Selected(NewReady, <<Model("models/gemini-1.5-pro", TRUE)>>)>>
    /\ model = "gemini-1.5-pro"
    /\ writes = 1
    /\ \E ratings \in RatingLists :
          \E first \in Responses(ratings), second \in TextlessResponses(ratings) :
              tasks = <<Generate(Asked, first), Generate(Asked, second)>>

NextFormat ==
    \/ \E t \in 1..Len(tasks) : SingleDone(t)
    \/ \E t \in 1..Len(tasks) : ChunkDone(t)
    \/ \E t \in 1..Len(tasks) : SleepDone(t)
    \/ \E t \in 1..Len(tasks) : NoticeDone(t)
    \/ \E t \in 1..Len(tasks) : ExceptDone(t)

SpecFormat == InitFormat /\ [][NextFormat]_vars

(***************************************************************************)
(* The model selection on every list of models: one run of on_ready        *)
(***************************************************************************)
ModelNames == {"models/gemini-1.5-pro", "models/gemini-1.5-flash", "models/embedding-001"}

ModelLists == SeqsUpTo([name : ModelNames, gen : BOOLEAN], MaxModels)

InitSelect ==
    /\ tasks = <<>>
    /\ readys = <<NewReady>>
    /\ model = InitialModel
    /\ writes = 0

NextSelect == PresenceDone(1, ModelLists)

SpecSelect == InitSelect /\ [][NextSelect]_vars

(***************************************************************************)
(* What the claims speak of                                                *)
(***************************************************************************)
Tasks == {tasks[t] : t \in 1..Len(tasks)}

IsAnswer(m) == m.kind = "answer"

\* the texts send_long_message passed to channel.send, in send order
AnswerTexts(task) ==
    LET answers == SelectSeq(task.sent, IsAnswer)
    IN  [i \in 1..Len(answers) |-> answers[i].text]

NotSpace(c) == ~IsSpace(c)

NoLongLine(text) ==
    \A i \in 1..Len(SplitLines(text)) : Len(SplitLines(text)[i]) <= Limit

\* send_long_message was called and returned, and no send failed
Delivered(task) ==
    /\ task.result = "text"
    /\ task.pc = "done"
    /\ task.fault = "none"

\* the ask of a user without its question
AskWithoutQuestion(task) ==
    /\ task.author # BotUser
    /\ task.content = "!ask"

(***************************************************************************)
(* Claims                                                                  *)
(***************************************************************************)
\* C1 as stated: for every text without a line longer than the limit, the
\* texts sent by send_long_message, concatenated in send order, are the text
C1_SentTextsAreTheText ==
    \A task \in Tasks :
        Delivered(task) /\ NoLongLine(task.text)
            => Concat(AnswerTexts(task)) = task.text

\* C1 amended: for every such text the chunks built concatenate to the text,
\* the texts sent are the chunks that are not whitespace only, so that they
\* hold every non-whitespace character of the text once and in order, and
\* they are the text itself when it is within the limit or no chunk is
\* whitespace only
C1_SentTextsAreTheTextLessBlankChunks ==
    \A task \in Tasks :
        Delivered(task) /\ NoLongLine(task.text)
            => LET sentText == Concat(AnswerTexts(task))
               IN  /\ SelectSeq(sentText, NotSpace) = SelectSeq(task.text, NotSpace)
                   /\ IsShort(task.text) => sentText = task.text
                   /\ ~IsShort(task.text) =>
                         /\ Concat(task.chunks) = task.text
                         /\ AnswerTexts(task) = SelectSeq(task.chunks, Sendable)
                         /\ (\A i \in 1..Len(task.chunks) : Sendable(task.chunks[i]))
                               => sentText = task.text

C1_Witness ==
    \E task \in Tasks :
        /\ Delivered(task) /\ NoLongLine(task.text)
        /\ Len(AnswerTexts(task)) = 2
        /\ Len(task.chunks) = 3

\* C2 as stated: every text passed to a send is within the limit
C2_EverySendWithinLimit ==
    \A task \in Tasks :
        \A i \in 1..Len(task.sent) : Len(task.sent[i].text) <= Limit

\* C3 as stated: no text send_long_message passes to channel.send is empty
\* or whitespace only, on the single-send path and on the chunked path
C3_NoBlankSend ==
    \A task \in Tasks :
        \A i \in 1..Len(task.sent) :
            IsAnswer(task.sent[i]) => Strip(task.sent[i].text) # <<>>

\* C4: every chunk built is within the limit or is one line of the text
\* that is itself longer than the limit
C4_OversizedChunkIsOneLine ==
    \A task \in Tasks :
        \A i \in 1..Len(task.chunks) :
            LET chunk == task.chunks[i]
            IN  \/ Len(chunk) <= Limit
                \/ /\ Len(SplitLines(chunk)) = 1
                   /\ \E j \in 1..Len(SplitLines(task.text)) :
                         SplitLines(task.text)[j] = chunk

C4_Witness ==
    \E task \in Tasks :
        /\ Len(SplitLines(task.text)) >= 2
        /\ \E i \in 1..Len(task.chunks) :
              /\ Len(task.chunks[i]) > Limit
              /\ i > 1 /\ task.chunks[i - 1] # <<>>
        /\ task.pc = "done"

\* C5: a text within the limit is sent by one send, unchanged, without
\* chunks and without a delay
C5_ShortTextOneSend ==
    \A task \in Tasks :
        task.result = "text" /\ Len(task.text) <= Limit
            => /\ AnswerTexts(task) = <<task.text>>
               /\ task.chunks = <<>>
               /\ task.delays = 0

C5_Witness ==
    \E task \in Tasks :
        /\ task.result = "text" /\ Len(task.text) = Limit
        /\ task.pc = "done" /\ task.fault = "none"

\* C6: a message of the bot itself is not logged and not handed to
\* process_commands, so that no handler runs, nothing is sent and the
\* generative API is not called for it
C6_SelfMessagesIgnored ==
    \A task \in Tasks :
        task.author = BotUser
            => /\ ~task.logged /\ ~task.routed
               /\ task.invoked = "none"
               /\ task.sent = <<>> /\ task.log = <<>>
               /\ task.genCalls = 0

C6_Witness ==
    /\ Len(tasks) = 2
    /\ tasks[1].author = BotUser /\ tasks[1].content = "!ask q"
    /\ tasks[2].author # BotUser /\ tasks[2].routed

\* C7 as stated: an ask without its question does not call the generative
\* API and a usage notice is sent to the user
C7_UsageNoticeSent ==
    \A task \in Tasks :
        AskWithoutQuestion(task)
            => /\ task.genCalls = 0
               /\ \E i \in 1..Len(task.sent) : task.sent[i].st = "ok"

\* C7 amended: an ask without its question does not call the handler or
\* the generative API; the error is printed by on_command_error and
\* nothing is sent to the user
C7_UsageErrorOnlyLogged ==
    \A task \in Tasks :
        AskWithoutQuestion(task)
            => /\ task.genCalls = 0
               /\ task.invoked = "none"
               /\ task.sent = <<>>
               /\ task.log = <<"Error: MissingRequiredArgument">>
               /\ task.pc = "done"

C7_Witness ==
    \E task \in Tasks : AskWithoutQuestion(task) /\ task.routed

\* C8 as stated: once an ask has ended after a fault in its try block, the
\* fault did not leave the handler and a notice reached the user
C8_FaultsCaughtAndNoticed ==
    \A task \in Tasks :
        task.invoked = "ask" /\ task.fault # "none" /\ task.pc = "done"
            => /\ ~task.escaped
               /\ \E i \in 1..Len(task.sent) :
                     /\ task.sent[i].kind \in {"error", "prompt_blocked"}
                     /\ task.sent[i].st = "ok"

\* C9 as stated: an ask whose acknowledgment send failed has called the
\* generative API all the same by the time it ends
C9_FailedAckStillGenerates ==
    \A task \in Tasks :
        /\ task.invoked = "ask" /\ task.pc = "done"
        /\ task.sent[1].st = "failed"
        => task.genCalls = 1

\* C9 amended: the acknowledgment is awaited; the generative API is called
\* only after its send has succeeded, and never when that send failed
C9_GeneratesOnlyAfterAck ==
    \A task \in Tasks :
        task.invoked = "ask"
            => /\ task.sent[1].kind = "ack"
               /\ task.genCalls > 0 => task.sent[1].st = "ok"
               /\ task.sent[1].st \in {"pending", "failed"} => task.genCalls = 0

C9_Witness ==
    \E task \in Tasks :
        /\ task.invoked = "ask" /\ task.pc = "done"
        /\ task.sent[1].st = "failed"
        /\ task.genCalls = 0

\* C10 as stated: model is assigned once, by on_ready, before any handler
\* reads it, and not again after a handler has read it
C10_WrittenOnceBeforeAnyRead ==
    /\ writes <= 1
    /\ \A task \in Tasks :
          task.genCalls > 0 => task.readAt = 1 /\ writes = task.readAt

\* C10 amended: model holds the model of the module's initialisation until
\* an on_ready run that has selected a model assigns it, once per such run
\* and after the run's awaits; a handler that reads it before any such
\* assignment reads the initial model, and one that reads it later reads a
\* model on_ready selected
C10_ReadsInitialOrSelected ==
    /\ writes = Cardinality({r \in 1..Len(readys) : readys[r].selection = "selected"})
    /\ writes = 0 => model = "gemini-pro"
    /\ writes > 0 => model \in {"gemini-1.5-pro", "gemini-1.5-flash"}
    /\ \A task \in Tasks :
          task.genCalls > 0
              => /\ task.readAt = 0 => task.modelRead = "gemini-pro"
                 /\ task.readAt > 0
                       => task.modelRead \in {"gemini-1.5-pro", "gemini-1.5-flash"}

C10_Witness ==
    \E task \in Tasks :
        /\ task.genCalls > 0 /\ task.readAt = 0
        /\ task.modelRead = "gemini-pro"
        /\ writes = 2

(***************************************************************************)
(* What the further claims speak of                                        *)
(***************************************************************************)
\* generate_content returned a response that has no text to send
Textless(task) ==
    /\ task.genCalls > 0
    /\ task.result # "raised"
    /\ ~task.response.hasText \/ task.response.text = <<>>

\* generate_content returned a response with a text that is not empty
Answered(task) ==
    /\ task.genCalls > 0
    /\ task.result # "raised"
    /\ task.response.hasText /\ task.response.text # <<>>

IsIssue(r) ==
    r.blocked \/ EnumValue(r.probability) > EnumValue(r.threshold)

\* the entry of the safety notice for a rating
IssueEntry(r) ==
    [category |-> r.category,
     verdict |-> IF r.blocked THEN "BLOCKED" ELSE r.probability,
     threshold |-> r.threshold]

EntriesOf(ratings) == [i \in 1..Len(ratings) |-> IssueEntry(ratings[i])]

AllSent(task) == \A i \in 1..Len(task.sent) : task.sent[i].st = "ok"

Kinds(task) == {task.sent[i].kind : i \in 1..Len(task.sent)}

\* an exception left a handler
FaultSeen ==
    \/ \E task \in Tasks : task.escaped
    \/ \E r \in 1..Len(readys) : readys[r].escaped

HasGenerating(models, name) ==
    \E i \in 1..Len(models) : models[i].name = name /\ models[i].gen

(***************************************************************************)
(* Further claims                                                          *)
(***************************************************************************)
\* C11 as stated: a response without text of which a rating is blocked gets
\* the safety notice, one notice if no send fails, and the notice lists the
\* blocked ratings, in rating order, and no rating that is not blocked
C11_OnlyBlockedRatingsListed ==
    \A task \in Tasks :
        Textless(task) /\ (\E i \in 1..Len(task.response.ratings) :
                              task.response.ratings[i].blocked)
            => /\ task.sent[2].kind = "safety"
               /\ task.sent[2].details
                     = EntriesOf(SelectSeq(task.response.ratings, IsBlocked))
               /\ task.pc = "done" /\ AllSent(task) => Len(task.sent) = 2

\* C11 amended: a response without text of which a rating is blocked gets
\* the safety notice, one notice if no send fails, and the notice lists, in
\* rating order, every blocked rating as BLOCKED and every rating that is
\* not blocked but whose probability is above its threshold with its
\* probability
C11_BlockedAndOverThresholdListed ==
    \A task \in Tasks :
        Textless(task) /\ (\E i \in 1..Len(task.response.ratings) :
                              task.response.ratings[i].blocked)
            => /\ task.sent[2].kind = "safety"
               /\ task.sent[2].details
                     = EntriesOf(SelectSeq(task.response.ratings, IsIssue))
               /\ task.pc = "done" /\ AllSent(task) => Len(task.sent) = 2

C11_Witness ==
    \E task \in Tasks :
        /\ Textless(task)
        /\ Len(task.response.ratings) = 2
        /\ task.response.ratings[1].blocked
        /\ ~task.response.ratings[2].blocked
        /\ task.response.ratings[2].probability = "HIGH"
        /\ Len(task.sent[2].details) = 2
        /\ task.pc = "done" /\ AllSent(task)

C14_EnumerationFailureTolerated ==
    \A r \in 1..Len(readys) :
        readys[r].diagnostic = "failed"
            => readys[r].selection # "none" /\ ~readys[r].escaped

\* C15: after the selection of a first run of on_ready, model is
\* gemini-1.5-pro if the list holds models/gemini-1.5-pro with
\* generateContent, else gemini-1.5-flash if it holds models/gemini-1.5-flash
\* with generateContent, else (also when the listing of the selection
\* raised) the initial gemini-pro; no exception has left on_ready
C15_ProElseFlashElseUnchanged ==
    \A r \in 1..Len(readys) :
        readys[r].pc = "done" /\ readys[r].selection # "none"
            => /\ model =
                    IF HasGenerating(readys[r].models, "models/gemini-1.5-pro")
                    THEN "gemini-1.5-pro"
                    ELSE IF HasGenerating(readys[r].models, "models/gemini-1.5-flash")
                         THEN "gemini-1.5-flash"
                         ELSE "gemini-pro"
               /\ ~readys[r].escaped

C15_Witness ==
    /\ readys[1].pc = "done"
    /\ Len(readys[1].models) >= 2
    /\ readys[1].models[1] = Model("models/gemini-1.5-flash", TRUE)
    /\ readys[1].models[2] = Model("models/gemini-1.5-pro", TRUE)
    /\ model = "gemini-1.5-pro"

\* C16: for a text longer than the limit, the lines of the chunks, one
\* chunk after the other, are the lines of the text, and a chunk and the
\* first line of the chunk after it are together longer than the limit
C16_GreedyWholeLines ==
    \A task \in Tasks :
        task.result = "text" /\ Len(task.text) > Limit
            => /\ Concat([i \in 1..Len(task.chunks) |-> SplitLines(task.chunks[i])])
                     = SplitLines(task.text)
               /\ \A i \in 1..(Len(task.chunks) - 1) :
                     /\ task.chunks[i + 1] # <<>>
                     /\ Len(task.chunks[i]) + Len(SplitLines(task.chunks[i + 1])[1])
                           > Limit

C16_Witness ==
    \E task \in Tasks :
        /\ task.result = "text" /\ Len(task.text) > Limit
        /\ Len(task.chunks) >= 2
        /\ Len(SplitLines(task.chunks[1])) = 2
        /\ Len(task.sent) = Len(task.chunks) + 1
        /\ task.pc = "done" /\ AllSent(task)

\* C17 as stated: while an ask waits for its generative result, for the
\* send of a chunk or for the delay between two chunks, a Message event the
\* transport has can be delivered and dispatched
C17_EventsDispatchedWhileAskWaits ==
    \A task \in Tasks :
        /\ task.invoked = "ask"
        /\ task.pc \in {"generating", "chunk", "sleep"}
        /\ Len(readys) + Len(tasks) < MaxEvents
        => ENABLED MessageEvent

\* C18: an ask calls generate_content at most once, and only after it has
\* issued the send of its acknowledgment
C18_OneGenerativeCall ==
    \A task \in Tasks :
        /\ task.genCalls <= 1
        /\ task.genCalls = 1
              => /\ task.invoked = "ask"
                 /\ task.sent # <<>> /\ task.sent[1].kind = "ack"

C18_Witness ==
    \E task \in Tasks :
        /\ task.result = "raised" /\ task.genCalls = 1
        /\ task.pc = "done"
        /\ \E other \in Tasks : other.result = "empty" /\ other.pc = "done"

\* C19 as stated: an ask that has ended and none of whose sends failed has
\* sent a message after its acknowledgment
C19_SomethingFollowsTheAck ==
    \A task \in Tasks :
        task.invoked = "ask" /\ task.pc = "done" /\ AllSent(task)
            => Len(task.sent) >= 2

\* C20 as stated: an ask of which a chunk of the answer was sent sends no
\* notice, and an answer text is sent in preference to the safety notice
C20_NoNoticeWithAnswer ==
    \A task \in Tasks :
        /\ (\E i \in 1..Len(task.sent) :
               task.sent[i].kind = "answer" /\ task.sent[i].st = "ok")
              => Kinds(task) \cap {"safety", "generic", "internal",
                                    "prompt_blocked", "error"} = {}
        /\ Answered(task) => "safety" \notin Kinds(task)

\* C20 amended: an ask that passed answer text to a send sends no safety,
\* generic or prompt notice, and an answer text is sent in preference to
\* the safety notice; the error notice of the except block follows answer
\* text only when a send of the answer failed
C20_OnlyErrorNoticeWithAnswer ==
    \A task \in Tasks :
        /\ "answer" \in Kinds(task)
              => /\ Kinds(task) \cap {"safety", "generic", "internal",
                                       "prompt_blocked"} = {}
                 /\ "error" \in Kinds(task)
                       => /\ task.fault = "TransportError"
                          /\ \E i \in 1..Len(task.sent) :
                                /\ task.sent[i].kind = "answer"
                                /\ task.sent[i].st = "failed"
        /\ Answered(task)
              => /\ "safety" \notin Kinds(task)
                 /\ task.sent[2].kind = "answer"

C20_Witness ==
    \E task \in Tasks :
        /\ Answered(task)
        /\ \E i \in 1..Len(task.response.ratings) : task.response.ratings[i].blocked
        /\ Len(task.chunks) = 2
        /\ task.pc = "done" /\ AllSent(task)

====
